---- MODULE Spec2Model ----
(***************************************************************************)
(* The HSD Lite Annotator (src/app_v2.py): one interactive session.  Every *)
(* user event (button press, selection change) is one run of the script,   *)
(* followed by the rerun the handler asks for.  The session state is the   *)
(* five entries of st.session_state, the masks directory on disk, the      *)
(* data directory as the session starts, the kinds of message the last     *)
(* event displayed (st.error, st.success, an unhandled exception), and the *)
(* archive held by the download button.                                    *)
(***************************************************************************)
EXTENDS Integers, Sequences, FiniteSets, TLC

VARIABLES scan_complete, file_tree, annotations, current_folder,
          current_img_idx, data_dir, mask_files, signal, zip_data

vars == <<scan_complete, file_tree, annotations, current_folder,
          current_img_idx, data_dir, mask_files, signal, zip_data>>

session == <<scan_complete, file_tree, annotations, current_folder,
             current_img_idx>>

(***************************************************************************)
(* Bounds of the model.                                                    *)
(***************************************************************************)
\* most files the data directory tree holds in all
MaxFiles == 3
\* most rows the annotation table is followed to, and most files the data
\* directory tree holds within a session
MaxRows == 2

(***************************************************************************)
(* Names.  A file name is a sequence of tokens; the token RAW stands for   *)
(* the text "_raw.png", so that endswith and replace act on it as the      *)
(* string operations do.  A path is a sequence of path components.         *)
(***************************************************************************)
RAW == "_raw.png"
NORM == "_norm.png"
MASK == "_mask.png"
None == "None"

CWD == <<"cwd">>
DATA_DIR == CWD \o <<"_precomputed_data">>
MASKS_DIR == CWD \o <<"_masks">>

\* os.path.join
Join(path, name) == path \o <<name>>

\* os.path.basename
Basename(path) == path[Len(path)]

\* os.path.relpath(path, start), for a path below start
Relpath(path, start) == SubSeq(path, Len(start) + 1, Len(path))

\* f.endswith('_raw.png')
EndsWithRaw(f) == Len(f) > 0 /\ f[Len(f)] = RAW

IsNotRaw(t) == t # RAW

\* f.replace('_raw.png', ''): every occurrence goes, not only the suffix
ReplaceRaw(f) == SelectSeq(f, IsNotRaw)

\* the code point a token starts with, for the order of Python strings
CodePoint(t) == CASE t = "a" -> 97 [] t = "b" -> 98 [] OTHER -> 95

RECURSIVE StrLeq(_, _)
\* s <= t for Python strings
StrLeq(s, t) ==
    IF s = <<>> THEN TRUE
    ELSE IF t = <<>> THEN FALSE
    ELSE IF CodePoint(Head(s)) < CodePoint(Head(t)) THEN TRUE
    ELSE IF CodePoint(Head(s)) > CodePoint(Head(t)) THEN FALSE
    ELSE StrLeq(Tail(s), Tail(t))

RECURSIVE SortedBaseNames(_)
\* sorted([f.replace('_raw.png', '') for f in raw_files])
SortedBaseNames(raw_files) ==
    IF raw_files = {} THEN <<>>
    ELSE LET m == CHOOSE f \in raw_files :
                    \A g \in raw_files : StrLeq(ReplaceRaw(f), ReplaceRaw(g))
         IN  <<ReplaceRaw(m)>> \o SortedBaseNames(raw_files \ {m})

(***************************************************************************)
(* A dict in insertion order is a sequence of entries with distinct names. *)
(***************************************************************************)
Keys(tree) == [i \in 1..Len(tree) |-> tree[i].name]

HasKey(tree, k) == \E i \in 1..Len(tree) : tree[i].name = k

\* folders.index(k)
Index(tree, k) == CHOOSE i \in 1..Len(tree) : tree[i].name = k

\* tree[k]
Entry(tree, k) == tree[Index(tree, k)]

\* tree[k] = {"path": path, "base_names": base_names}
DictSet(tree, k, path, base_names) ==
    LET e == [name |-> k, path |-> path, base_names |-> base_names]
    IN  IF HasKey(tree, k) THEN [tree EXCEPT ![Index(tree, k)] = e]
        ELSE Append(tree, e)

RECURSIVE WalkTree(_, _)
\* the loop over os.walk(root_path), from the tree built so far
WalkTree(walk, tree) ==
    IF walk = <<>> THEN tree
    ELSE LET d == Head(walk)
             raw_files == {f \in d.filenames : EndsWithRaw(f)}
         IN  IF raw_files # {}
             THEN WalkTree(Tail(walk),
                           DictSet(tree, Basename(d.dirpath), d.dirpath,
                                   SortedBaseNames(raw_files)))
             ELSE WalkTree(Tail(walk), tree)


(***************************************************************************)
(* The data directory as a scan finds it: whether the root exists, and     *)
(* what os.walk yields below it, a sequence of [dirpath, filenames]        *)
(* top-down from the root.                                                 *)
(***************************************************************************)
Missing == [exists |-> FALSE, walk |-> <<>>]

Present(w) == [exists |-> TRUE, walk |-> w]

SubDirs == {Join(DATA_DIR, "x"), Join(DATA_DIR, "y"),
            Join(Join(DATA_DIR, "y"), "x")}

FileNames == {<<"a", RAW>>, <<"b", RAW>>, <<"a", RAW, RAW>>, <<"a", NORM>>}

Parent(path) == SubSeq(path, 1, Len(path) - 1)

IsPrefix(p, q) == Len(p) <= Len(q) /\ SubSeq(q, 1, Len(p)) = p

\* os.walk is depth first: a directory comes right after its parent's
\* earlier subtrees, and its own subtree follows it without a gap
TopDown(dirs) ==
    /\ Len(dirs) >= 1 /\ dirs[1] = DATA_DIR
    /\ \A i, j \in 1..Len(dirs) : i # j => dirs[i] # dirs[j]
    /\ \A i \in 2..Len(dirs) :
          \E j \in 1..(i - 1) :
              /\ dirs[j] = Parent(dirs[i])
              /\ \A k \in j..i : IsPrefix(dirs[j], dirs[k])

DirOrders ==
    {dirs \in UNION {[1..n -> SubDirs \cup {DATA_DIR}] :
                        n \in 1..(Cardinality(SubDirs) + 1)} : TopDown(dirs)}

RECURSIVE Total(_, _)
Total(files, n) ==
    IF n = 0 THEN 0 ELSE Cardinality(files[n]) + Total(files, n - 1)

Walks ==
    UNION {{[i \in 1..Len(dirs) |-> [dirpath |-> dirs[i], filenames |-> files[i]]] :
              files \in {f \in [1..Len(dirs) -> SUBSET FileNames] :
                            Total(f, Len(dirs)) <= MaxFiles}} :
           dirs \in DirOrders}

Datasets == {Missing} \cup {Present(w) : w \in Walks}

\* the data directories a session meets: folders x and y below the root,
\* listed in this order, each with some of a_raw.png, b_raw.png
SessionNames == {<<"a", RAW>>, <<"b", RAW>>}

InSession(w) ==
    /\ Total([i \in 1..Len(w) |-> w[i].filenames], Len(w)) <= MaxRows
    /\ w[1].filenames = {}
    /\ \A i \in 2..Len(w) :
          /\ Len(w[i].dirpath) = Len(DATA_DIR) + 1
          /\ w[i].filenames # {}
          /\ w[i].filenames \subseteq SessionNames
    /\ Len(w) = 3 => Basename(w[2].dirpath) = "x"

SessionDatasets == {Missing} \cup {Present(w) : w \in {v \in Walks : InSession(v)}}

(***************************************************************************)
(* The annotation table: a DataFrame is the sequence of its rows.          *)
(***************************************************************************)
Columns == <<"Folder", "Base_Filename", "Tag", "Mask_Saved", "Notes">>

tag_options ==
    {"Benign", "Cancerous", "Anomaly", "Background", "Discard", "Keep"}

\* canvas_result as lines 189-217 leave it in the run of a click: unbound
\* when the layer failed to load, else bound with image_data None or drawn
Unbound == "unbound"
Drawn == "drawn"

\* what a press of Save & Next finds in the Classification and Notes
\* widgets and in canvas_result
SaveInputs ==
    {[tag |-> "Benign", notes |-> <<>>, canvas |-> None],
     [tag |-> "Cancerous", notes |-> <<"ok">>, canvas |-> Drawn],
     [tag |-> "Benign", notes |-> <<>>, canvas |-> Unbound]}

SameKey(r, q) == r.Folder = q.Folder /\ r.Base_Filename = q.Base_Filename

RECURSIVE DropDuplicatesKeepFirst(_)
\* keep='first' in place of keep='last'
DropDuplicatesKeepFirst(df) ==
    IF df = <<>> THEN <<>>
    ELSE LET front == SubSeq(df, 1, Len(df) - 1)
             last == df[Len(df)]
         IN  IF \E j \in 1..Len(front) : SameKey(front[j], last)
             THEN DropDuplicatesKeepFirst(front)
             ELSE DropDuplicatesKeepFirst(front) \o <<last>>

RECURSIVE DropDuplicatesKeepLast(_)
\* df.drop_duplicates(subset=['Folder', 'Base_Filename'], keep='last')
DropDuplicatesKeepLast(df) ==
    IF df = <<>> THEN <<>>
    ELSE IF \E j \in 2..Len(df) : SameKey(df[j], df[1])
         THEN DropDuplicatesKeepLast(Tail(df))
         ELSE <<Head(df)>> \o DropDuplicatesKeepLast(Tail(df))

\* pd.concat([df, new_data], ignore_index=True), then drop_duplicates
Upsert(df, folder, base_name, tag, notes, mask_saved_status) ==
    DropDuplicatesKeepLast(
        Append(df, [Folder |-> folder, Base_Filename |-> base_name,
                    Tag |-> tag, Mask_Saved |-> mask_saved_status,
                    Notes |-> notes]))

(***************************************************************************)
(* The masks directory: a function from the paths of its files to their    *)
(* contents.                                                               *)
(***************************************************************************)
\* os.path.join(os.path.join(MASKS_DIR, folder), f"{base_name}_mask.png")
MaskPath(folder, base_name) ==
    Join(Join(MASKS_DIR, folder), base_name \o <<MASK>>)

\* mask_img.save(mask_path)
WriteFile(files, path, data) ==
    [p \in DOMAIN files \cup {path} |-> IF p = path THEN data ELSE files[p]]

NoFiles == [p \in {} |-> None]

\* the masks directory when the session starts: a mask an earlier session
\* left
InitMasks == WriteFile(NoFiles, MaskPath("x", <<"a">>), "old")

(***************************************************************************)
(* Export.                                                                 *)
(***************************************************************************)
XLSX == <<"hsd_annotations.xlsx">>

\* df.to_excel(writer, index=False): the header, then one line a row
ToExcel(df) ==
    <<Columns>> \o
    [i \in 1..Len(df) |-> <<df[i].Folder, df[i].Base_Filename, df[i].Tag,
                            df[i].Mask_Saved, df[i].Notes>>]

\* create_export_zip(): arcname -> content
create_export_zip(df, files) ==
    [n \in {XLSX} \cup {Relpath(p, CWD) : p \in DOMAIN files} |->
        IF n = XLSX THEN ToExcel(df) ELSE files[CWD \o n]]

NoDownload == [offered |-> FALSE, data |-> NoFiles]

\* the sidebar's Cloud Export section, lines 127-155
CloudExport(ready, df, files) ==
    IF ready /\ df # <<>>
    THEN [offered |-> TRUE, data |-> create_export_zip(df, files)]
    ELSE NoDownload

(***************************************************************************)
(* The session.                                                            *)
(***************************************************************************)
Init ==
    /\ scan_complete = FALSE
    /\ file_tree = <<>>
    /\ annotations = <<>>
    /\ current_folder = None
    /\ current_img_idx = 0
    /\ data_dir = Missing
    /\ mask_files = InitMasks
    /\ signal = {}
    /\ zip_data = NoDownload

\* the tree the loop of lines 40-47 builds from an empty one, tabulated for
\* the data directories a session meets
SessionScan == [root \in SessionDatasets |-> WalkTree(root.walk, <<>>)]

\* tree = {} and the loop over os.walk(root_path)
BuildTree(root) ==
    IF root \in SessionDatasets THEN SessionScan[root]
    ELSE WalkTree(root.walk, <<>>)

\* a failed scan that drops the session back to NotLoaded
ScanResettingOnFailure(root) ==
    LET tree == BuildTree(root)
    IN  IF root.exists /\ tree # <<>>
        THEN /\ file_tree' = tree
             /\ current_folder' = Keys(tree)[1]
             /\ current_img_idx' = 0
             /\ scan_complete' = TRUE
             /\ signal' = {}
             /\ UNCHANGED annotations
        ELSE /\ signal' = {"error"}
             /\ scan_complete' = FALSE
             /\ UNCHANGED <<file_tree, annotations, current_folder,
                            current_img_idx>>

\* a scan that installs whatever it built, the empty tree too
ScanInstallingEmptyTree(root) ==
    LET tree == BuildTree(root)
    IN  IF ~root.exists
        THEN /\ signal' = {"error"}
             /\ UNCHANGED session
        ELSE /\ file_tree' = tree
             /\ current_folder' = IF tree # <<>> THEN Keys(tree)[1] ELSE None
             /\ current_img_idx' = 0
             /\ scan_complete' = (tree # <<>>)
             /\ signal' = IF tree # <<>> THEN {} ELSE {"error"}
             /\ UNCHANGED annotations

\* scan_png_directory(root_path), on the data directory as it is found
scan_png_directory(root) ==
    LET tree == BuildTree(root)
    IN  IF ~root.exists
        THEN /\ signal' = {"error"}
             /\ UNCHANGED session
        ELSE IF tree # <<>>
        THEN /\ file_tree' = tree
             /\ current_folder' = Keys(tree)[1]
             /\ current_img_idx' = 0
             /\ scan_complete' = TRUE
             /\ signal' = {}
             /\ UNCHANGED annotations
        ELSE /\ signal' = {"error"}
             /\ UNCHANGED session

\* the Load Dataset button, pressed with the data directory among roots
LoadDataset(roots) ==
    \E root \in roots :
        /\ scan_png_directory(root)
        /\ UNCHANGED <<data_dir, mask_files>>
        /\ zip_data' = CloudExport(scan_complete', annotations', mask_files')

\* the Current Folder selectbox, moved to another folder
SelectFolder ==
    /\ scan_complete
    /\ \E selected_folder \in {file_tree[i].name : i \in 1..Len(file_tree)} :
          /\ selected_folder # current_folder
          /\ current_folder' = selected_folder
          /\ current_img_idx' = 0
    /\ signal' = {}
    /\ UNCHANGED <<scan_complete, file_tree, annotations, data_dir, mask_files>>
    /\ zip_data' = CloudExport(scan_complete', annotations', mask_files')

\* a Previous button that is never disabled
PreviousNeverDisabled ==
    /\ scan_complete
    /\ current_img_idx' = current_img_idx - 1
    /\ signal' = {}
    /\ UNCHANGED <<scan_complete, file_tree, annotations, current_folder,
                   data_dir, mask_files>>
    /\ zip_data' = CloudExport(scan_complete', annotations', mask_files')

\* the Previous button, disabled at index 0
Previous ==
    /\ scan_complete
    /\ current_img_idx # 0
    /\ current_img_idx' = current_img_idx - 1
    /\ signal' = {}
    /\ UNCHANGED <<scan_complete, file_tree, annotations, current_folder,
                   data_dir, mask_files>>
    /\ zip_data' = CloudExport(scan_complete', annotations', mask_files')

\* lines 82-92: the cursor after a save, and whether all is complete
Advance(tree, folder, idx) ==
    LET base_names == Entry(tree, folder).base_names
        current_folder_idx == Index(tree, folder) - 1
    IN  IF idx < Len(base_names) - 1
        THEN [folder |-> folder, idx |-> idx + 1, complete |-> FALSE]
        ELSE IF current_folder_idx < Len(tree) - 1
        THEN [folder |-> tree[current_folder_idx + 2].name, idx |-> 0,
              complete |-> FALSE]
        ELSE [folder |-> folder, idx |-> idx, complete |-> TRUE]

\* a save that writes the mask file whatever the buffer is
SaveWritingAlways(folder, base_name, tag, notes, mask_data) ==
    LET mask_saved_status == IF mask_data # None THEN "Yes" ELSE "No"
        next == Advance(file_tree, folder, current_img_idx)
    IN  /\ mask_files' = WriteFile(mask_files, MaskPath(folder, base_name),
                                   mask_data)
        /\ annotations' = Upsert(annotations, folder, base_name, tag, notes,
                                 mask_saved_status)
        /\ current_folder' = next.folder
        /\ current_img_idx' = next.idx
        /\ signal' = IF next.complete THEN {"success"} ELSE {}

\* save_annotation_and_next(folder, base_name, tag, notes, mask_data)
save_annotation_and_next(folder, base_name, tag, notes, mask_data) ==
    LET mask_saved_status == IF mask_data # None THEN "Yes" ELSE "No"
        next == Advance(file_tree, folder, current_img_idx)
    IN  /\ mask_files' = IF mask_data # None
                         THEN WriteFile(mask_files,
                                        MaskPath(folder, base_name), mask_data)
                         ELSE mask_files
        /\ annotations' = Upsert(annotations, folder, base_name, tag, notes,
                                 mask_saved_status)
        /\ current_folder' = next.folder
        /\ current_img_idx' = next.idx
        /\ signal' = IF next.complete THEN {"success"} ELSE {}

\* the sample the main workspace shows, lines 161-166
CurrentBase ==
    Entry(file_tree, current_folder).base_names[current_img_idx + 1]

\* a Save & Next without the st.rerun() of line 94: the download button
\* keeps the archive the sidebar built before the save
SaveNextWithoutRerun(tag, notes, canvas) ==
    /\ scan_complete
    /\ UNCHANGED <<scan_complete, file_tree, data_dir>>
    /\ IF canvas = Unbound
       THEN /\ signal' = {"error", "exception"}
            /\ UNCHANGED <<annotations, current_folder, current_img_idx,
                           mask_files>>
       ELSE /\ save_annotation_and_next(current_folder, CurrentBase,
                                        tag, notes, canvas)
            /\ Len(annotations') <= MaxRows
    /\ zip_data' = CloudExport(scan_complete, annotations, mask_files)

\* the Save & Next button, pressed with tag and notes in the widgets and
\* canvas as the canvas block left canvas_result in this run
SaveNext(tag, notes, canvas) ==
    /\ scan_complete
    /\ UNCHANGED <<scan_complete, file_tree, data_dir>>
    /\ IF canvas = Unbound
       THEN \* line 217 reports the layer; line 254 reads an unbound name
            /\ signal' = {"error", "exception"}
            /\ UNCHANGED <<annotations, current_folder, current_img_idx,
                           mask_files>>
       ELSE /\ save_annotation_and_next(current_folder, CurrentBase,
                                        tag, notes, canvas)
            /\ Len(annotations') <= MaxRows
    /\ zip_data' = CloudExport(scan_complete', annotations', mask_files')

Next ==
    \/ LoadDataset(SessionDatasets)
    \/ SelectFolder
    \/ Previous
    \/ \E in \in SaveInputs : SaveNext(in.tag, in.notes, in.canvas)

\* a session: the data directory is missing when it starts, and what each
\* press of Load Dataset finds there is an input
Spec == Init /\ [][Next]_vars

InitScan ==
    /\ scan_complete = FALSE
    /\ file_tree = <<>>
    /\ annotations = <<>>
    /\ current_folder = None
    /\ current_img_idx = 0
    /\ data_dir \in Datasets
    /\ mask_files = InitMasks
    /\ signal = {}
    /\ zip_data = NoDownload

NextScan ==
    \/ LoadDataset({data_dir})
    \/ SelectFolder

\* the scanner alone, on every data directory within the bound, which
\* stays as it is found
ScanSpec == InitScan /\ [][NextScan]_vars

(***************************************************************************)
(* Properties.                                                             *)
(***************************************************************************)
RowsOf(df, folder, base_name) ==
    {i \in 1..Len(df) : df[i].Folder = folder /\ df[i].Base_Filename = base_name}

KeysOf(df) == {<<df[i].Folder, df[i].Base_Filename>> : i \in 1..Len(df)}

\* a press of Save & Next that reaches save_annotation_and_next
Saves(in) == in.canvas # Unbound /\ SaveNext(in.tag, in.notes, in.canvas)

SomeSave == \E in \in SaveInputs : Saves(in)

OneRowPerKey ==
    \A i, j \in 1..Len(annotations) :
        SameKey(annotations[i], annotations[j]) => i = j

\* the table after a save: one row for the saved key, with the values of
\* this save, and every other key's row as it was
UpsertStep(in) ==
    LET folder == current_folder
        base_name == CurrentBase
    IN  /\ \E i \in 1..Len(annotations') :
              /\ RowsOf(annotations', folder, base_name) = {i}
              /\ annotations'[i].Tag = in.tag
              /\ annotations'[i].Notes = in.notes
              /\ annotations'[i].Mask_Saved =
                     (IF in.canvas = None THEN "No" ELSE "Yes")
        /\ KeysOf(annotations') = KeysOf(annotations) \cup {<<folder, base_name>>}
        /\ \A i \in 1..Len(annotations) :
              ~(annotations[i].Folder = folder
                /\ annotations[i].Base_Filename = base_name)
              => \E j \in 1..Len(annotations') : annotations'[j] = annotations[i]

\* C1: after any sequence of saves with repeated keys the annotation table
\* holds exactly one row for each key that was saved, with the tag, notes
\* and Mask_Saved of the last save of that key: the table starts empty, no
\* state holds two rows of one key, every save leaves one row for its key
\* with its own values and every other key's row as it was, and nothing
\* but a save changes the table.
C1_LastSaveWins ==
    /\ []OneRowPerKey
    /\ [][\A in \in SaveInputs : Saves(in) => UpsertStep(in)]_vars
    /\ [][annotations' = annotations \/ SomeSave]_vars

\* a key saved with a drawn mask and saved again without one, beside
\* another key
C1_Witness ==
    /\ Len(annotations) = 2
    /\ \E i \in 1..2 :
          /\ annotations[i].Mask_Saved = "No"
          /\ annotations[i].Tag = "Benign"
          /\ MaskPath(annotations[i].Folder, annotations[i].Base_Filename)
                 \in DOMAIN mask_files
          /\ mask_files[MaskPath(annotations[i].Folder,
                                 annotations[i].Base_Filename)] = Drawn

\* the directories of a data directory that hold a file ending in _raw.png
Qualifying(root) ==
    {i \in 1..Len(root.walk) :
        \E f \in root.walk[i].filenames : f[Len(f)] = RAW}

\* the root is absent, or no directory under it holds a raw file
ScanFails(root) == ~root.exists \/ Qualifying(root) = {}

\* C2: a scan that fails (the root is absent, or no directory under it
\* holds a file ending in _raw.png) signals an error and leaves the file
\* tree, the current folder, the current index, the dataset-ready flag and
\* the annotation table as they were, whatever the session's state.
C2_FailedScanChangesNothing ==
    [][\A root \in SessionDatasets :
          (ScanFails(root) /\ LoadDataset({root}))
          => /\ "error" \in signal'
             /\ file_tree' = file_tree
             /\ current_folder' = current_folder
             /\ current_img_idx' = current_img_idx
             /\ scan_complete' = scan_complete
             /\ annotations' = annotations]_vars

\* a scan has just failed in a session that was browsing past the first
\* sample, with a row in the table
C2_Witness ==
    /\ signal = {"error"}
    /\ scan_complete
    /\ current_img_idx > 0
    /\ annotations # <<>>

\* C3 as stated: a Rescan that fails ends in NotLoaded.
C3_FailedRescanIsNotLoaded ==
    [][\A root \in SessionDatasets :
          (scan_complete /\ ScanFails(root) /\ LoadDataset({root}))
          => ~scan_complete']_vars

\* C3, amended: a Rescan that fails leaves the session Browsing, on the
\* tree and cursor it had; after a press of Load Dataset the session is
\* Browsing exactly if the scan succeeded or the session was Browsing
\* before, so a failed scan ends in NotLoaded only from NotLoaded.
C3_FailedRescanStaysBrowsing ==
    [][\A root \in SessionDatasets :
          /\ scan_complete' \/ ScanFails(root) \/ ~LoadDataset({root})
          /\ (ScanFails(root) /\ LoadDataset({root}))
             => /\ scan_complete' = scan_complete
                /\ scan_complete
                   => /\ HasKey(file_tree', current_folder')
                      /\ <<file_tree', current_folder', current_img_idx'>>
                           = <<file_tree, current_folder, current_img_idx>>]_vars

\* a Rescan has just failed in a session browsing its second folder
C3_Witness ==
    /\ signal = {"error"}
    /\ scan_complete
    /\ Len(file_tree) = 2
    /\ current_folder = file_tree[2].name

\* a raw file's name with the suffix _raw.png taken off
SuffixStripped(f) == SubSeq(f, 1, Len(f) - 1)

RawFiles(d) == {f \in d.filenames : f[Len(f)] = RAW}

Sorted(names) ==
    \A i \in 1..(Len(names) - 1) : StrLeq(names[i], names[i + 1])

\* the entry the claim gives the directory d: under its leaf name, its k
\* base names in lexicographic order
Registered(tree, d) ==
    \E j \in 1..Len(tree) :
        /\ tree[j].name = d.dirpath[Len(d.dirpath)]
        /\ tree[j].path = d.dirpath
        /\ Len(tree[j].base_names) = Cardinality(RawFiles(d))
        /\ {tree[j].base_names[n] : n \in 1..Len(tree[j].base_names)}
               = {SuffixStripped(f) : f \in RawFiles(d)}
        /\ Sorted(tree[j].base_names)

\* C4 as stated: a scan of a root with N directories (at any depth) that
\* hold raw files installs a tree of exactly N keys, one a directory, each
\* with that directory's base names in lexicographic order, puts the cursor
\* on the first folder at index 0 and marks the dataset ready.
C4_OneKeyPerDirectory ==
    [][(data_dir.exists /\ Qualifying(data_dir) # {}
        /\ LoadDataset({data_dir}))
       => /\ Len(file_tree') = Cardinality(Qualifying(data_dir))
          /\ \A i \in Qualifying(data_dir) :
                Registered(file_tree', data_dir.walk[i])
          /\ current_folder' = file_tree'[1].name
          /\ current_img_idx' = 0
          /\ scan_complete']_vars

\* <masks root>/<folder>/<base>_mask.png
MaskFileOf(folder, base_name) ==
    <<"cwd", "_masks", folder, base_name \o <<"_mask.png">>>>

RowOf(df, folder, base_name) ==
    df[CHOOSE i \in 1..Len(df) :
           df[i].Folder = folder /\ df[i].Base_Filename = base_name]

\* C5: a save with an absent mask buffer creates no mask file and records
\* Mask_Saved = "No" for the key; a save with a present buffer creates or
\* overwrites exactly one file, <masks root>/<folder>/<base>_mask.png,
\* leaves every other mask file as it was and records Mask_Saved = "Yes";
\* nothing but a save touches the masks directory.
C5_MaskFileFollowsBuffer ==
    /\ [][\A in \in SaveInputs :
            Saves(in)
            => LET p == MaskFileOf(current_folder, CurrentBase)
                   row == RowOf(annotations', current_folder, CurrentBase)
               IN  IF in.canvas = None
                   THEN /\ mask_files' = mask_files
                        /\ row.Mask_Saved = "No"
                   ELSE /\ DOMAIN mask_files' = DOMAIN mask_files \cup {p}
                        /\ mask_files'[p] = in.canvas
                        /\ \A q \in DOMAIN mask_files \ {p} :
                              mask_files'[q] = mask_files[q]
                        /\ row.Mask_Saved = "Yes"]_vars
    /\ [][~SomeSave => mask_files' = mask_files]_vars

\* the mask an earlier session left was overwritten by a save with a drawn
\* buffer, a second mask file was created, and a later save without a
\* buffer left both in place
C5_Witness ==
    /\ Cardinality(DOMAIN mask_files) = 2
    /\ mask_files[MaskFileOf("x", <<"a">>)] = Drawn
    /\ \E i \in 1..Len(annotations) : annotations[i].Mask_Saved = "No"

\* the cursor is on the last sample of the last folder in tree order
AtTerminal ==
    /\ scan_complete
    /\ current_folder = file_tree[Len(file_tree)].name
    /\ current_img_idx + 1 = Len(file_tree[Len(file_tree)].base_names)

Presses(in) == SaveNext(in.tag, in.notes, in.canvas)

\* C6 as stated: Save&Next at the last sample of the last folder completes
\* without a fault and leaves the current folder and the current index as
\* they were, so that the position is a fixed point of Save&Next.
C6_TerminalFixedPoint ==
    [][\A in \in SaveInputs :
          (AtTerminal /\ Presses(in))
          => /\ "exception" \notin signal'
             /\ current_folder' = current_folder
             /\ current_img_idx' = current_img_idx
             /\ AtTerminal']_vars

\* the cursor the claim gives Save&Next, and whether all is complete
AdvanceRule ==
    LET names == Entry(file_tree, current_folder).base_names
        k == Index(file_tree, current_folder)
    IN  IF current_img_idx + 1 < Len(names)
        THEN /\ current_img_idx' = current_img_idx + 1
             /\ current_folder' = current_folder
             /\ "success" \notin signal'
        ELSE IF k < Len(file_tree)
        THEN /\ current_folder' = file_tree[k + 1].name
             /\ current_img_idx' = 0
             /\ "success" \notin signal'
        ELSE /\ current_folder' = current_folder
             /\ current_img_idx' = current_img_idx
             /\ "success" \in signal'

Upserted(in) ==
    \E i \in 1..Len(annotations') :
        /\ annotations'[i].Folder = current_folder
        /\ annotations'[i].Base_Filename = CurrentBase
        /\ annotations'[i].Tag = in.tag
        /\ annotations'[i].Notes = in.notes
        /\ annotations'[i].Mask_Saved = (IF in.canvas = Drawn THEN "Yes" ELSE "No")

\* C7 as stated: Save&Next persists the mask and upserts the record of the
\* current (folder, sample), then advances the cursor: by one within the
\* folder, else to index 0 of the next folder in tree order, else it stays
\* and "all complete" is signalled.
C7_SaveThenAdvance ==
    [][\A in \in SaveInputs :
          Presses(in)
          => /\ Upserted(in)
             /\ in.canvas = Drawn
                => /\ MaskFileOf(current_folder, CurrentBase)
                          \in DOMAIN mask_files'
                   /\ mask_files'[MaskFileOf(current_folder, CurrentBase)]
                          = Drawn
             /\ AdvanceRule]_vars

\* C8 as stated: with the layer of the current sample failing to load, the
\* failure is caught and reported, no action ends in an unhandled fault,
\* and Save&Next behaves as a save with an absent mask buffer: the record
\* is upserted with Mask_Saved = "No" and the cursor advances.
C8_LayerFailureKeepsSessionUsable ==
    [][\A in \in SaveInputs :
          (in.canvas = Unbound /\ Presses(in))
          => /\ "error" \in signal'
             /\ "exception" \notin signal'
             /\ Upserted(in)
             /\ mask_files' = mask_files
             /\ AdvanceRule]_vars

\* the sheet holds the header and exactly the rows of the table, in order
SheetHolds(sheet, df) ==
    /\ Len(sheet) = Len(df) + 1
    /\ sheet[1] = <<"Folder", "Base_Filename", "Tag", "Mask_Saved", "Notes">>
    /\ \A i \in 1..Len(df) :
          sheet[i + 1] = <<df[i].Folder, df[i].Base_Filename, df[i].Tag,
                           df[i].Mask_Saved, df[i].Notes>>

\* beside the sheet the archive holds exactly the files of the masks
\* directory, under their paths from the working directory
MasksHeld(archive, files) ==
    /\ DOMAIN archive \ {<<"hsd_annotations.xlsx">>}
           = {Tail(p) : p \in DOMAIN files}
    /\ \A p \in DOMAIN files : archive[Tail(p)] = files[p]

ExportIsCurrent ==
    /\ zip_data.offered
    /\ SheetHolds(zip_data.data[<<"hsd_annotations.xlsx">>], annotations)
    /\ MasksHeld(zip_data.data, mask_files)

\* C9 as stated: in every Browsing state an export can be requested, and it
\* holds exactly the rows of the annotation table and exactly the mask
\* files under the masks root at that moment, the empty table included.
C9_ExportInEveryBrowsingState == scan_complete => ExportIsCurrent

\* C9, amended: in every Browsing state whose annotation table is not
\* empty an export is offered, and it holds exactly the rows of the table
\* and exactly the mask files under the masks root at that moment; while
\* the table is empty the session offers no export, though
\* create_export_zip on that state yields a header-only sheet and the
\* masks present.
C9_ExportWhenTableNotEmpty ==
    scan_complete
    => IF annotations # <<>>
       THEN ExportIsCurrent
       ELSE /\ ~zip_data.offered
            /\ SheetHolds(create_export_zip(annotations, mask_files)[XLSX], <<>>)
            /\ MasksHeld(create_export_zip(annotations, mask_files), mask_files)

\* an export of two rows and two mask files, one of them overwritten since
\* the session began
C9_Witness ==
    /\ zip_data.offered
    /\ Len(annotations) = 2
    /\ Cardinality(DOMAIN zip_data.data) = 3
    /\ zip_data.data[<<"_masks", "x", <<"a", "_mask.png">>>>] = Drawn

CursorValid ==
    scan_complete
    => /\ \E i \in 1..Len(file_tree) : file_tree[i].name = current_folder
       /\ \A i \in 1..Len(file_tree) :
             file_tree[i].name = current_folder
             => /\ file_tree[i].base_names # <<>>
                /\ 0 <= current_img_idx
                /\ current_img_idx < Len(file_tree[i].base_names)

\* C10: in every state in which the dataset is ready the cursor is valid:
\* the current folder is a key of the file tree, that folder's base names
\* are not empty and 0 <= current index < their number; Previous acts only
\* at an index above 0, lowers it by exactly 1 and keeps the folder; a
\* manual folder change sets the index to 0.
C10_CursorValid ==
    /\ []CursorValid
    /\ [][Previous => /\ current_img_idx > 0
                      /\ current_img_idx' = current_img_idx - 1
                      /\ current_folder' = current_folder]_vars
    /\ [][SelectFolder => /\ current_img_idx' = 0
                          /\ current_folder' # current_folder]_vars

\* a Rescan has just failed in a session that is on the second sample of a
\* folder whose first sample is saved
C10_Witness ==
    /\ scan_complete
    /\ current_img_idx = 1
    /\ signal = {"error"}
    /\ Len(file_tree) = 1
    /\ Len(annotations) = 1

====
